---- MODULE Spec2Model ----
(***************************************************************************)
(* Model of the openclaw-mem0 memory server: the route handlers of         *)
(* server/index.ts (add, search, delete, list, count), the Qdrant and      *)
(* Ollama clients of server/infrastructure.ts, and the two backends they   *)
(* talk to.  Requests are handled one at a time; every backend call may    *)
(* succeed or fail.                                                        *)
(***************************************************************************)
EXTENDS Integers, Sequences, FiniteSets, TLC

\* ------------------------------------------------------------------------
\* Bounds of the model
\* ------------------------------------------------------------------------
MaxIds == 2            \* ids crypto.randomUUID() may hand out in one run
MaxPoints == 4         \* size of the pre-loaded data set of the scroll runs
MaxPageSize == 2       \* largest page size the paging backend serves
MaxMessages == 11      \* most messages an agent_end event carries

\* ------------------------------------------------------------------------
\* Program constants
\* ------------------------------------------------------------------------
MaxMessagesLen == 50000
MaxQueryLen == 1000
MinLimit == 1
MaxLimit == 100
DefaultLimit == 5
FallbackLen == 500
ScrollLimit == 250
MaxPages == 100

\* a JSON key that is missing / a JavaScript undefined
Absent == "_absent_"
\* a payload without created_at
NoTime == 0

Min(a, b) == IF a < b THEN a ELSE b

\* ------------------------------------------------------------------------
\* Strings whose length matters are run-length encoded: a text is a
\* sequence of runs [ch, n] (n > 0, neighbouring runs differ in ch), so
\* "x".repeat(50001) is <<[ch |-> "x", n |-> 50001]>>.
\* ------------------------------------------------------------------------
Str(c, k) == IF k <= 0 THEN <<>> ELSE <<[ch |-> c, n |-> k]>>

RECURSIVE TextLen(_)
TextLen(t) == IF t = <<>> THEN 0 ELSE Head(t).n + TextLen(Tail(t))

\* String.prototype.slice(0, k)
RECURSIVE Slice(_, _)
Slice(t, k) ==
  IF t = <<>> \/ k <= 0 THEN <<>>
  ELSE IF Head(t).n <= k THEN <<Head(t)>> \o Slice(Tail(t), k - Head(t).n)
  ELSE <<[ch |-> Head(t).ch, n |-> k]>>

\* the i-th character of t, 1 <= i <= TextLen(t)
RECURSIVE CharAt(_, _)
CharAt(t, i) == IF i <= Head(t).n THEN Head(t).ch ELSE CharAt(Tail(t), i - Head(t).n)

\* f.trim().length > 0
TrimNonEmpty(t) == \E i \in 1..Len(t) : t[i].ch # " "

\* an optional text (a JSON key holding a string, or missing)
Some(t) == [some |-> TRUE, v |-> t]
None == [some |-> FALSE, v |-> <<>>]

\* JavaScript truthiness of an optional string
Truthy(s) == s # Absent /\ s # ""

\* ------------------------------------------------------------------------
\* State
\* ------------------------------------------------------------------------
VARIABLES
  store,     \* the Qdrant collection: a set of points, at most one per id
  nextId,    \* the next id crypto.randomUUID() hands out
  backend,   \* how the vector backend behaves: [mode, pageSize]
  req,       \* the request (or direct client call) handled last
  gen,       \* what the generation backend answered to the last extractFacts
  facts,     \* what the last extractFacts returned
  outcomes,  \* per fact of the last add: "ok", "embedFail" or "upsertFail";
             \* of the last search or delete: how its backend calls went
  calls,     \* provider / storage calls made on behalf of the last request
  resp,      \* the response to the last request
  scroll,    \* the scrollPoints loop in progress
  qdrantReady,  \* the module-level flag of server/index.ts
  boot,      \* startServer: [pc, apiKeyValue, ensure]
  plugin,    \* the plugin process: its configuration and the hook in hand
  adds       \* the add requests handled step by step, one record per request

vars ==
  <<store, nextId, backend, req, gen, facts, outcomes, calls, resp, scroll,
    qdrantReady, boot, plugin, adds>>

\* what the handlers taken as one step leave alone: the plugin is another
\* process, and a request handled step by step keeps its own record
aside == <<plugin, adds>>

\* what only startServer writes
serverVars == <<qdrantReady, boot>>

\* ------------------------------------------------------------------------
\* Values
\* ------------------------------------------------------------------------
Users == {"u1", "u2"}
Agents == {"a1"}
Runs == {"r1"}

ShortText == Str("h", 5)
LongText == Str("a", 499) \o Str("b", 2)
HugeText == Str("x", MaxMessagesLen + 1)
Fact1 == Str("p", 4)
Fact2 == Str("q", 6)
BlankText == Str(" ", 2)

\* how often each client method was called, and the limit searchPoints
\* was last called with
NoCalls ==
  [extractFacts |-> 0, embed |-> 0, upsert |-> 0, search |-> 0,
   scroll |-> 0, count |-> 0, delete |-> 0, searchLimit |-> 0]

\* the fields every response record has; a handler fills in its own
NoResp ==
  [op |-> "none", status |-> 0, error |-> "", results |-> <<>>,
   hasFailed |-> FALSE, failed |-> 0, hits |-> {}, memories |-> <<>>,
   count |-> 0, success |-> FALSE, health |-> ""]

\* a header the request does not carry (headers.get returns null)
NoHeader == <<Absent>>

\* the fields every request record has
NoReq ==
  [op |-> "none", jsonOk |-> TRUE, messages |-> None, query |-> None,
   user_id |-> Absent, agent_id |-> Absent, run_id |-> Absent,
   hasLimit |-> FALSE, limit |-> 0, id |-> 0, validId |-> FALSE,
   idText |-> <<>>, auth |-> NoHeader]

NoGen == [kind |-> "none", arr |-> <<>>, fields |-> <<>>]

NoOffset == 0
IdleScroll ==
  [pc |-> "idle", caller |-> "none", must |-> <<>>, offset |-> NoOffset,
   acc |-> <<>>, page |-> 0, sent |-> <<>>, got |-> <<>>]

\* startServer has not run: the module is loaded and its handlers are
\* called with layers of the caller's choosing
NotStarted == [pc |-> "module", apiKeyValue |-> Absent, ensure |-> "none"]

\* no plugin is loaded, no request is handled step by step
NoPlugin == [pc |-> "none"]
NoAdds == <<>>

\* json(data, status) and errorResponse(msg, status)
errorResponse(op, msg, status) ==
  [NoResp EXCEPT !.op = op, !.status = status, !.error = msg]

\* ------------------------------------------------------------------------
\* Fact provider: extractFacts
\* ------------------------------------------------------------------------
\* An element of a parsed JSON array: a string or something else.
JStr(t) == [isStr |-> TRUE, v |-> t]
JOther == [isStr |-> FALSE, v |-> <<>>]
\* A value of a parsed JSON object: an array or something else.
JArr(a) == [isArr |-> TRUE, arr |-> a]
JNoArr == [isArr |-> FALSE, arr |-> <<>>]

\* parsed.filter(f => typeof f === "string" && f.trim().length > 0)
RECURSIVE FilterNonEmptyStrings(_)
FilterNonEmptyStrings(a) ==
  IF a = <<>> THEN <<>>
  ELSE (IF Head(a).isStr /\ TrimNonEmpty(Head(a).v) THEN <<Head(a).v>> ELSE <<>>)
       \o FilterNonEmptyStrings(Tail(a))

\* firstArray.filter(f => typeof f === "string")
RECURSIVE FilterStrings(_)
FilterStrings(a) ==
  IF a = <<>> THEN <<>>
  ELSE (IF Head(a).isStr THEN <<Head(a).v>> ELSE <<>>) \o FilterStrings(Tail(a))

\* Object.values(parsed).find(Array.isArray): index of the first array, or 0
RECURSIVE FirstArray(_, _)
FirstArray(fields, i) ==
  IF i > Len(fields) THEN 0
  ELSE IF fields[i].isArr THEN i ELSE FirstArray(fields, i + 1)

\* a fallback that forgets to cut the text
Fallback_Whole(messages) == <<messages>>

\* [messages.slice(0, 500)]
Fallback(messages) == <<Slice(messages, FallbackLen)>>

\* What the generation endpoint can answer:
\*   neterr    fetch rejects                     httperr  !res.ok
\*   baddecode the body has no string `response` nonjson  JSON.parse throws
\*   array / object / scalar / null              the shape JSON.parse returns
FailingKinds == {"neterr", "httperr", "baddecode", "nonjson"}

\* a parser that uses an object's array only when it is the object's only one
extractFacts_SingleArrayOnly(messages, g) ==
  CASE g.kind \in FailingKinds -> Fallback(messages)
    [] g.kind = "array" -> FilterNonEmptyStrings(g.arr)
    [] g.kind = "object" ->
         IF Cardinality({i \in 1..Len(g.fields) : g.fields[i].isArr}) = 1
           THEN FilterStrings(g.fields[FirstArray(g.fields, 1)].arr)
           ELSE Fallback(messages)
    [] g.kind = "scalar" -> Fallback(messages)
    [] g.kind = "null" -> Fallback(messages)

extractFacts(messages, g) ==
  CASE g.kind \in FailingKinds -> Fallback(messages)
    [] g.kind = "array" -> FilterNonEmptyStrings(g.arr)
    [] g.kind = "object" ->
         IF FirstArray(g.fields, 1) # 0
           THEN FilterStrings(g.fields[FirstArray(g.fields, 1)].arr)
           ELSE Fallback(messages)
    [] g.kind = "scalar" -> Fallback(messages)
    [] g.kind = "null" -> Fallback(messages)   \* Object.values(null) throws

GenOutcomes ==
  { [NoGen EXCEPT !.kind = k] : k \in FailingKinds \cup {"scalar", "null"} }
  \cup { [NoGen EXCEPT !.kind = "array", !.arr = a] :
           a \in { <<>>, <<JStr(Fact1)>>, <<JStr(Fact1), JStr(Fact2)>>,
                   <<JOther, JStr(BlankText), JStr(Fact2)>> } }
  \cup { [NoGen EXCEPT !.kind = "object", !.fields = f] :
           f \in { <<JNoArr>>, <<JNoArr, JArr(<<JStr(Fact1), JOther>>)>>,
                   <<JArr(<<>>), JArr(<<JStr(Fact2)>>)>>,
                   <<JArr(<<JStr(<<>>)>>)>> } }

\* ------------------------------------------------------------------------
\* Identity filter and the vector backend
\* ------------------------------------------------------------------------
Pred(k, v) == [key |-> k, value |-> v]

\* a filter that tests the dimensions for presence only
buildMustFilter_EmptyKept(userId, agentId, runId) ==
  <<Pred("user_id", userId)>>
  \o (IF agentId # Absent THEN <<Pred("agent_id", agentId)>> ELSE <<>>)
  \o (IF runId # Absent THEN <<Pred("run_id", runId)>> ELSE <<>>)

buildMustFilter(userId, agentId, runId) ==
  <<Pred("user_id", userId)>>
  \o (IF Truthy(agentId) THEN <<Pred("agent_id", agentId)>> ELSE <<>>)
  \o (IF Truthy(runId) THEN <<Pred("run_id", runId)>> ELSE <<>>)

\* A point of the collection: its id and the payload keys the server uses.
Point(id, memory, userId, agentId, runId, createdAt) ==
  [id |-> id, memory |-> memory, user_id |-> userId, agent_id |-> agentId,
   run_id |-> runId, created_at |-> createdAt]

PayloadGet(p, key) ==
  CASE key = "user_id" -> p.user_id
    [] key = "agent_id" -> p.agent_id
    [] key = "run_id" -> p.run_id

\* Qdrant's filter {must: [...]}: every predicate matches the payload.
Matches(p, must) ==
  \A i \in 1..Len(must) : PayloadGet(p, must[i].key) = must[i].value

Matching(must) == {p \in store : Matches(p, must)}

\* PUT /points: insert the point or replace the one with the same id
Upserted(pts, p) == {q \in pts : q.id # p.id} \cup {p}

\* a backend that empties the collection when asked for an id it lacks
Deleted_MissingIdClears(pts, id) ==
  IF \E q \in pts : q.id = id THEN {q \in pts : q.id # id} ELSE {}

\* POST /points/delete: removing an id that is not there is not an error
Deleted(pts, id) == {q \in pts : q.id # id}

\* the k smallest ids of a set of ids, as a set
Smallest(ids, k) == {i \in ids : Cardinality({j \in ids : j < i}) < k}

\* a set of points as a sequence in ascending id order
RECURSIVE ById(_)
ById(pts) ==
  IF pts = {} THEN <<>>
  ELSE LET p == CHOOSE q \in pts : \A o \in pts : q.id <= o.id
       IN <<p>> \o ById(pts \ {p})

\* an offset past every stored point
EndOffset == 1 + Cardinality(store) + MaxIds + MaxPoints

\* POST /points/scroll: the points from `offset` on in id order, at most a
\* page of them, and the id the next page starts at.  The honest backend
\* answers null once nothing is left; the endless one never does.
ScrollPage(must, offset) ==
  LET cand == {p \in Matching(must) : offset = NoOffset \/ p.id >= offset}
      size == Min(backend.pageSize, ScrollLimit)
      ids == {p.id : p \in cand}
      first == Smallest(ids, size)
      rest == ids \ first
  IN [points |-> ById({p \in cand : p.id \in first}),
      next_page_offset |->
        IF rest # {} THEN CHOOSE i \in rest : \A j \in rest : i <= j
        ELSE IF backend.mode = "endless" THEN EndOffset
        ELSE NoOffset]

\* POST /points/search: up to `limit` of the matching points; which ones and
\* with what score is the backend's ranking.
Scores == {1, 2}
SearchAnswers(must, limit) ==
  LET m == Matching(must)
  IN {S \in SUBSET m : Cardinality(S) = Min(limit, Cardinality(m))}

\* decoded.result.map(...) of searchPoints
SearchHit(p, sc) ==
  [id |-> p.id, memory |-> p.memory, score |-> sc,
   user_id |-> IF Truthy(p.user_id) THEN p.user_id ELSE Absent,
   agent_id |-> IF Truthy(p.agent_id) THEN p.agent_id ELSE Absent,
   run_id |-> IF Truthy(p.run_id) THEN p.run_id ELSE Absent]

\* decoded.result.points.map(...) of scrollPoints
ToMemory(p) ==
  [id |-> p.id, memory |-> p.memory,
   user_id |-> IF Truthy(p.user_id) THEN p.user_id ELSE Absent,
   agent_id |-> IF Truthy(p.agent_id) THEN p.agent_id ELSE Absent,
   run_id |-> IF Truthy(p.run_id) THEN p.run_id ELSE Absent,
   created_at |-> p.created_at]

MapMemories(pts) == [i \in 1..Len(pts) |-> ToMemory(pts[i])]

\* a count that filters on the user alone
countPoints_UserOnly(userId, agentId, runId) ==
  Cardinality(Matching(buildMustFilter(userId, Absent, Absent)))

\* POST /points/count with exact: true
countPoints(userId, agentId, runId) ==
  Cardinality(Matching(buildMustFilter(userId, agentId, runId)))

\* ------------------------------------------------------------------------
\* Vector store client: scrollPoints
\* ------------------------------------------------------------------------
\* loop(null, [], 0)
StartScroll(caller, userId, agentId, runId) ==
  [pc |-> "loop", caller |-> caller,
   must |-> buildMustFilter(userId, agentId, runId),
   offset |-> NoOffset, acc |-> <<>>, page |-> 0, sent |-> <<>>, got |-> <<>>]

\* what the caller of scrollPoints makes of its result
ScrollSucceeded(caller, all) ==
  IF caller = "list"
    THEN [NoResp EXCEPT !.op = "list", !.status = 200, !.memories = all]
    ELSE [NoResp EXCEPT !.op = "scrollPoints", !.status = 200, !.memories = all]

ScrollFailed(caller) ==
  IF caller = "list"
    THEN errorResponse("list", "Failed to list memories", 500)
    ELSE errorResponse("scrollPoints", "QdrantError", 500)

\* a page guard that gives up after the second page
PageCapHit_Early(page) == page > 1

\* the page guard of loop: stop without another request
PageCapHit(page) == page > MaxPages

\* One turn of loop(offset, acc, page): the page cap, or one scroll request
\* and what follows from its answer.
ScrollStep ==
  /\ scroll.pc = "loop"
  /\ UNCHANGED serverVars
  /\ UNCHANGED aside
  /\ UNCHANGED <<store, nextId, backend, req, gen, facts, outcomes>>
  /\ IF PageCapHit(scroll.page)
       THEN /\ resp' = ScrollSucceeded(scroll.caller, scroll.acc)
            /\ scroll' = [scroll EXCEPT !.pc = "idle"]
            /\ calls' = calls
       ELSE /\ calls' = [calls EXCEPT !.scroll = @ + 1]
            /\ \E ok \in BOOLEAN :
                 IF ~ok
                   THEN /\ resp' = ScrollFailed(scroll.caller)
                        /\ scroll' = [scroll EXCEPT !.pc = "idle",
                                        !.sent = Append(@, scroll.offset)]
                   ELSE LET pg == ScrollPage(scroll.must, scroll.offset)
                            all == scroll.acc \o MapMemories(pg.points)
                            nextOffset == pg.next_page_offset
                        IN IF nextOffset = NoOffset
                             THEN /\ resp' = ScrollSucceeded(scroll.caller, all)
                                  /\ scroll' = [scroll EXCEPT !.pc = "idle",
                                                  !.acc = all,
                                                  !.sent = Append(@, scroll.offset),
                                                  !.got = Append(@, nextOffset)]
                             ELSE /\ resp' = resp
                                  /\ scroll' = [scroll EXCEPT !.offset = nextOffset,
                                                  !.acc = all, !.page = @ + 1,
                                                  !.sent = Append(@, scroll.offset),
                                                  !.got = Append(@, nextOffset)]

\* ------------------------------------------------------------------------
\* Route handlers
\* ------------------------------------------------------------------------
\* The server takes up a request when the one before has been answered.
Idle == scroll.pc = "idle" /\ resp = NoResp

\* The response goes out; nothing of a request outlives it.
Respond ==
  /\ scroll.pc = "idle"
  /\ UNCHANGED serverVars
  /\ UNCHANGED aside
  /\ resp # NoResp
  /\ req' = NoReq
  /\ gen' = NoGen
  /\ facts' = <<>>
  /\ outcomes' = <<>>
  /\ calls' = NoCalls
  /\ resp' = NoResp
  /\ scroll' = IdleScroll
  /\ UNCHANGED <<store, nextId, backend>>

\* Schema.decodeUnknown(AddRequestSchema)
ValidAdd(body) ==
  /\ body.messages.some
  /\ TextLen(body.messages.v) <= MaxMessagesLen
  /\ body.user_id # Absent

FactOutcomes == {"ok", "embedFail", "upsertFail"}

\* the ids crypto.randomUUID() gives to the facts whose embed succeeded
EmbeddedBefore(out, i) == Cardinality({j \in 1..(i - 1) : out[j] # "embedFail"})
\* a generator that hands out the same id again and again
IdOfFact_Reused(out, i) == 1

IdOfFact(out, i) == nextId + EmbeddedBefore(out, i)

\* a filter that only drops the facts whose embed failed
RECURSIVE StoredResults_KeepUpsertFailed(_, _, _)
StoredResults_KeepUpsertFailed(fs, out, i) ==
  IF i > Len(fs) THEN <<>>
  ELSE (IF out[i] # "embedFail"
          THEN <<[id |-> IdOfFact(out, i), memory |-> fs[i], event |-> "ADD"]>>
          ELSE <<>>)
       \o StoredResults_KeepUpsertFailed(fs, out, i + 1)

\* results.filter(r => r !== null)
RECURSIVE StoredResults(_, _, _)
StoredResults(fs, out, i) ==
  IF i > Len(fs) THEN <<>>
  ELSE (IF out[i] = "ok"
          THEN <<[id |-> IdOfFact(out, i), memory |-> fs[i], event |-> "ADD"]>>
          ELSE <<>>)
       \o StoredResults(fs, out, i + 1)

\* a payload that carries the text of the request's first fact
AddedPoint_FirstFact(body, fs, out, i, now) ==
  Point(IdOfFact(out, i), fs[1], body.user_id, Absent, Absent, now)

\* the payload handleAdd upserts for a fact
AddedPoint(body, fs, out, i, now) ==
  Point(IdOfFact(out, i), fs[i], body.user_id, Absent, Absent, now)

\* an answer to zero facts that leaves the failed key out
EmptyAddResponse_NoFailedKey == [NoResp EXCEPT !.op = "add", !.status = 200]

\* json({results: [], failed: 0})
EmptyAddResponse ==
  [NoResp EXCEPT !.op = "add", !.status = 200, !.hasFailed = TRUE, !.failed = 0]

\* a response that always carries the failed key
AddResponse_AlwaysFailed(stored, failed) ==
  [NoResp EXCEPT !.op = "add", !.status = 200, !.results = stored,
                 !.hasFailed = TRUE, !.failed = failed]

\* json({results: stored, ...(failed > 0 ? {failed} : {})})
AddResponse(stored, failed) ==
  [NoResp EXCEPT !.op = "add", !.status = 200, !.results = stored,
                 !.hasFailed = failed > 0, !.failed = IF failed > 0 THEN failed ELSE 0]

\* The bodies POST /add is tried with: well-formed ones, and ones with an
\* unparsable body, no or over-long messages, no or an empty user_id.
AddBody(m, u, a, r) ==
  [NoReq EXCEPT !.op = "add", !.messages = m, !.user_id = u,
                !.agent_id = a, !.run_id = r]

AddBodies ==
  { AddBody(Some(ShortText), u, ar[1], ar[2]) :
      u \in Users, ar \in {<<Absent, Absent>>, <<"a1", "r1">>} }
  \cup { AddBody(Some(LongText), "u1", Absent, Absent),
         AddBody(Some(Str("x", MaxMessagesLen)), "u2", Absent, Absent),
         AddBody(Some(ShortText), "", Absent, Absent),
         AddBody(Some(ShortText), Absent, "a1", Absent),
         AddBody(None, "u1", "a1", Absent),
         AddBody(Some(HugeText), "u1", "a1", Absent),
         [NoReq EXCEPT !.op = "add", !.jsonOk = FALSE] }

handleAdd(body) ==
  /\ Idle
  /\ UNCHANGED serverVars
  /\ UNCHANGED aside
  /\ req' = body
  /\ scroll' = IdleScroll
  /\ UNCHANGED backend
  /\ IF ~body.jsonOk
       THEN /\ resp' = errorResponse("add", "Invalid JSON body", 400)
            /\ calls' = NoCalls /\ gen' = NoGen /\ facts' = <<>> /\ outcomes' = <<>>
            /\ UNCHANGED <<store, nextId>>
     ELSE IF ~ValidAdd(body)
       THEN /\ resp' = errorResponse("add", "Validation failed", 400)
            /\ calls' = NoCalls /\ gen' = NoGen /\ facts' = <<>> /\ outcomes' = <<>>
            /\ UNCHANGED <<store, nextId>>
     ELSE \E g \in GenOutcomes :
       LET fs == extractFacts(body.messages.v, g)
       IN /\ gen' = g
          /\ facts' = fs
          /\ IF Len(fs) = 0
               THEN /\ resp' = EmptyAddResponse
                    /\ calls' = [NoCalls EXCEPT !.extractFacts = 1]
                    /\ outcomes' = <<>>
                    /\ UNCHANGED <<store, nextId>>
               ELSE \E out \in [1..Len(fs) -> FactOutcomes] :
                      \* new Date().toISOString(), as a logical clock: the
                      \* number of the first id this request may take
                      LET now == nextId
                          embedded == {i \in 1..Len(fs) : out[i] # "embedFail"}
                          ok == {i \in 1..Len(fs) : out[i] = "ok"}
                          stored == StoredResults(fs, out, 1)
                      IN /\ nextId + Cardinality(embedded) - 1 <= MaxIds
                         /\ outcomes' = out
                         /\ store' = {q \in store : q.id \notin {IdOfFact(out, i) : i \in ok}}
                              \cup {AddedPoint(body, fs, out, i, now) : i \in ok}
                         /\ nextId' = nextId + Cardinality(embedded)
                         /\ calls' = [NoCalls EXCEPT !.extractFacts = 1,
                                        !.embed = Len(fs),
                                        !.upsert = Cardinality(embedded)]
                         /\ resp' = AddResponse(stored, Len(fs) - Len(stored))

\* a schema whose limit is any number
ValidSearch_NoLimitCheck(body) ==
  /\ body.query.some
  /\ TextLen(body.query.v) <= MaxQueryLen
  /\ body.user_id # Absent

\* Schema.decodeUnknown(SearchRequestSchema)
ValidSearch(body) ==
  /\ body.query.some
  /\ TextLen(body.query.v) <= MaxQueryLen
  /\ body.user_id # Absent
  /\ body.hasLimit => (MinLimit <= body.limit /\ body.limit <= MaxLimit)

\* a handler without the default
EffectiveLimit_NoDefault(body) == body.limit

\* body.limit ?? 5
EffectiveLimit(body) == IF body.hasLimit THEN body.limit ELSE DefaultLimit

\* what handleSearch hands to qdrant.searchPoints(vector, userId, limit)
SearchArgs(body) ==
  [userId |-> body.user_id, limit |-> EffectiveLimit(body),
   agentId |-> Absent, runId |-> Absent]

\* what handleListMemories / handleCountMemories hand to the client
ListArgs(q) == [userId |-> q.user_id, agentId |-> Absent, runId |-> Absent]

\* the answers searchPoints can return for its arguments
searchPoints(userId, limit, agentId, runId) ==
  UNION { { {SearchHit(p, sc[p.id]) : p \in S} : sc \in [{p.id : p \in S} -> Scores] } :
            S \in SearchAnswers(buildMustFilter(userId, agentId, runId), limit) }

\* The bodies POST /search is tried with.
SearchBody(q, u, a, r, hasLimit, limit) ==
  [NoReq EXCEPT !.op = "search", !.query = q, !.user_id = u, !.agent_id = a,
                !.run_id = r, !.hasLimit = hasLimit, !.limit = limit]

SearchBodies ==
  { SearchBody(Some(Fact1), u, ar[1], ar[2], l[1], l[2]) :
      u \in Users,
      ar \in {<<Absent, Absent>>, <<"a1", Absent>>, <<Absent, "r1">>},
      l \in {<<FALSE, 0>>, <<TRUE, MinLimit>>, <<TRUE, MaxLimit>>} }
  \cup { SearchBody(Some(<<>>), "u1", Absent, Absent, FALSE, 0),
         SearchBody(Some(Str("x", MaxQueryLen)), "u1", Absent, Absent, FALSE, 0),
         SearchBody(None, "u1", Absent, Absent, FALSE, 0),
         SearchBody(Some(Str("x", MaxQueryLen + 1)), "u1", Absent, Absent, FALSE, 0),
         SearchBody(Some(Fact1), Absent, "a1", Absent, FALSE, 0),
         SearchBody(Some(Fact1), "u1", Absent, Absent, TRUE, MinLimit - 1),
         SearchBody(Some(Fact1), "u1", Absent, Absent, TRUE, MaxLimit + 1),
         [NoReq EXCEPT !.op = "search", !.jsonOk = FALSE] }

\* a handler that answers a failed embed or search with no results
SearchCatchAll_EmptyResults(tag, message) ==
  IF tag = "ValidationError"
    THEN errorResponse("search", message, 400)
    ELSE [NoResp EXCEPT !.op = "search", !.status = 200]

\* the catchAll of handleSearch, by the tag of the error it is handed
SearchCatchAll(tag, message) ==
  IF tag = "ValidationError"
    THEN errorResponse("search", message, 400)
    ELSE errorResponse("search", "Search failed", 500)

handleSearch(body) ==
  /\ Idle
  /\ UNCHANGED serverVars
  /\ UNCHANGED aside
  /\ req' = body
  /\ scroll' = IdleScroll
  /\ gen' = NoGen /\ facts' = <<>>
  /\ UNCHANGED <<store, nextId, backend>>
  /\ IF ~body.jsonOk
       THEN /\ resp' = SearchCatchAll("ValidationError", "Invalid JSON body")
            /\ calls' = NoCalls /\ outcomes' = <<>>
     ELSE IF ~ValidSearch(body)
       THEN /\ resp' = SearchCatchAll("ValidationError", "Validation failed")
            /\ calls' = NoCalls /\ outcomes' = <<>>
     ELSE \E embedOk \in BOOLEAN :
       IF ~embedOk
         THEN /\ resp' = SearchCatchAll("OllamaError", "embed")
              /\ calls' = [NoCalls EXCEPT !.embed = 1]
              /\ outcomes' = <<"embedFail">>
         ELSE \E searchOk \in BOOLEAN :
           /\ calls' = [NoCalls EXCEPT !.embed = 1, !.search = 1,
                                       !.searchLimit = SearchArgs(body).limit]
           /\ IF ~searchOk
                THEN /\ resp' = SearchCatchAll("QdrantError", "searchPoints")
                     /\ outcomes' = <<"searchFail">>
                ELSE LET a == SearchArgs(body)
                     IN /\ outcomes' = <<"ok">>
                        /\ \E hits \in searchPoints(a.userId, a.limit, a.agentId, a.runId) :
                             resp' = [NoResp EXCEPT !.op = "search", !.status = 200,
                                                    !.hits = hits]

\* UUID_RE: [0-9a-f] under the i flag, and where the hyphens stand
HexChars ==
  {"0", "1", "2", "3", "4", "5", "6", "7", "8", "9",
   "a", "b", "c", "d", "e", "f", "A", "B", "C", "D", "E", "F"}
UUIDLen == 36
HyphenAt == {9, 14, 19, 24}

\* a test that lets every non-empty id through
isValidUUID_AnyId(s) == TextLen(s) > 0

\* UUID_RE.test(s)
isValidUUID(s) ==
  /\ TextLen(s) = UUIDLen
  /\ \A i \in 1..UUIDLen :
       IF i \in HyphenAt THEN CharAt(s, i) = "-" ELSE CharAt(s, i) \in HexChars

\* the text of the i-th id crypto.randomUUID() hands out, "11111111-1111-..."
\* for the first; an id names the same point in either letter case
IdChars == <<"1", "2", "3", "4", "5", "6", "7", "8", "9", "a", "b", "c">>
UUIDOf(c) ==
  Str(c, 8) \o Str("-", 1) \o Str(c, 4) \o Str("-", 1) \o Str(c, 4)
    \o Str("-", 1) \o Str(c, 4) \o Str("-", 1) \o Str(c, 12)
UUIDText(i) == UUIDOf(IdChars[i])

\* ids that are no UUIDs: "not-a-uuid", one character short, a non-hex
\* letter in the right shape, no hyphens, the empty string
NotAUuid ==
  Str("n", 1) \o Str("o", 1) \o Str("t", 1) \o Str("-", 1) \o Str("a", 1)
    \o Str("-", 1) \o Str("u", 2) \o Str("i", 1) \o Str("d", 1)
MalformedIds ==
  { NotAUuid,
    Str("1", 8) \o Str("-", 1) \o Str("1", 4) \o Str("-", 1) \o Str("1", 4)
      \o Str("-", 1) \o Str("1", 4) \o Str("-", 1) \o Str("1", 11),
    UUIDOf("g"),
    Str("1", UUIDLen),
    <<>> }

\* DELETE /memories/:id.  validId is isValidUUID(id); a well-formed id names
\* the point `id` (stored or not).
DeletePath(i, t) ==
  [NoReq EXCEPT !.op = "delete", !.id = i, !.idText = t, !.validId = isValidUUID(t)]

DeletePaths ==
  { DeletePath(i, UUIDText(i)) : i \in 1..(MaxIds + 1) }
  \cup { DeletePath(10, UUIDOf("A")) }
  \cup { DeletePath(0, t) : t \in MalformedIds }

handleDelete(path) ==
  /\ Idle
  /\ UNCHANGED serverVars
  /\ UNCHANGED aside
  /\ req' = path
  /\ scroll' = IdleScroll
  /\ gen' = NoGen /\ facts' = <<>>
  /\ UNCHANGED <<nextId, backend>>
  /\ IF ~path.validId
       THEN /\ resp' = errorResponse("delete", "Invalid memory ID: must be a valid UUID", 400)
            /\ calls' = NoCalls
            /\ outcomes' = <<>>
            /\ UNCHANGED store
       ELSE /\ calls' = [NoCalls EXCEPT !.delete = 1]
            /\ \E ok \in BOOLEAN :
                 IF ok
                   THEN /\ store' = Deleted(store, path.id)
                        /\ outcomes' = <<"ok">>
                        /\ resp' = [NoResp EXCEPT !.op = "delete", !.status = 200,
                                                  !.success = TRUE]
                   ELSE /\ UNCHANGED store
                        /\ outcomes' = <<"deleteFail">>
                        /\ resp' = errorResponse("delete", "Delete failed", 500)

\* the query string of GET /memories and GET /memories/count
Query(op, u, a, r) ==
  [NoReq EXCEPT !.op = op, !.user_id = u, !.agent_id = a, !.run_id = r]

Queries(op) ==
  { Query(op, u, ar[1], ar[2]) :
      u \in Users,
      ar \in {<<Absent, Absent>>, <<"a1", Absent>>, <<Absent, "r1">>} }
  \cup { Query(op, Absent, "a1", "r1"), Query(op, "", Absent, Absent) }

handleListMemories(q) ==
  /\ Idle
  /\ UNCHANGED serverVars
  /\ UNCHANGED aside
  /\ req' = q
  /\ gen' = NoGen /\ facts' = <<>> /\ outcomes' = <<>>
  /\ calls' = NoCalls
  /\ UNCHANGED <<store, nextId, backend>>
  /\ IF ~Truthy(q.user_id)
       THEN /\ resp' = errorResponse("list", "Missing query param: user_id", 400)
            /\ scroll' = IdleScroll
       ELSE LET a == ListArgs(q)
            IN /\ resp' = NoResp
               /\ scroll' = StartScroll("list", a.userId, a.agentId, a.runId)

handleCountMemories(q) ==
  /\ Idle
  /\ UNCHANGED serverVars
  /\ UNCHANGED aside
  /\ req' = q
  /\ scroll' = IdleScroll
  /\ gen' = NoGen /\ facts' = <<>> /\ outcomes' = <<>>
  /\ UNCHANGED <<store, nextId, backend>>
  /\ IF ~Truthy(q.user_id)
       THEN /\ resp' = errorResponse("count", "Missing query param: user_id", 400)
            /\ calls' = NoCalls
       ELSE /\ calls' = [NoCalls EXCEPT !.count = 1]
            /\ \E ok \in BOOLEAN :
                 IF ok
                   THEN LET a == ListArgs(q)
                        IN resp' = [NoResp EXCEPT !.op = "count", !.status = 200,
                                      !.count = countPoints(a.userId, a.agentId, a.runId)]
                   ELSE resp' = errorResponse("count", "Failed to count memories", 500)

\* ------------------------------------------------------------------------
\* Direct calls of the vector store client (QdrantClientService)
\* ------------------------------------------------------------------------
ClientArgs(op) ==
  { [NoReq EXCEPT !.op = op, !.user_id = u, !.agent_id = a, !.run_id = r,
                  !.hasLimit = TRUE, !.limit = l] :
      u \in Users, a \in Agents \cup {Absent, ""}, r \in Runs \cup {Absent, ""},
      l \in {1, DefaultLimit} }

\* upsertPoint(id, vector, payload) with a payload of the caller's choosing
ClientPayloads ==
  { [NoReq EXCEPT !.op = "upsertPoint", !.messages = Some(Fact1), !.user_id = u,
                  !.agent_id = a, !.run_id = r] :
      u \in Users, a \in Agents \cup {Absent}, r \in Runs \cup {Absent} }

clientUpsert(c) ==
  /\ Idle
  /\ UNCHANGED serverVars
  /\ UNCHANGED aside
  /\ nextId <= MaxIds
  /\ req' = [c EXCEPT !.id = nextId]
  /\ scroll' = IdleScroll
  /\ gen' = NoGen /\ facts' = <<>> /\ outcomes' = <<>>
  /\ calls' = [NoCalls EXCEPT !.upsert = 1]
  /\ nextId' = nextId + 1
  /\ UNCHANGED backend
  /\ \E ok \in BOOLEAN :
       IF ok
         THEN /\ store' = Upserted(store, Point(nextId, c.messages.v, c.user_id,
                                                  c.agent_id, c.run_id, NoTime))
              /\ resp' = [NoResp EXCEPT !.op = "upsertPoint", !.status = 200]
         ELSE /\ UNCHANGED store
              /\ resp' = errorResponse("upsertPoint", "QdrantError", 500)

clientSearch(c) ==
  /\ Idle
  /\ UNCHANGED serverVars
  /\ UNCHANGED aside
  /\ req' = c
  /\ scroll' = IdleScroll
  /\ gen' = NoGen /\ facts' = <<>> /\ outcomes' = <<>>
  /\ calls' = [NoCalls EXCEPT !.search = 1, !.searchLimit = c.limit]
  /\ UNCHANGED <<store, nextId, backend>>
  /\ \E ok \in BOOLEAN :
       IF ok
         THEN \E hits \in searchPoints(c.user_id, c.limit, c.agent_id, c.run_id) :
                resp' = [NoResp EXCEPT !.op = "searchPoints", !.status = 200,
                                       !.hits = hits]
         ELSE resp' = errorResponse("searchPoints", "QdrantError", 500)

clientScroll(c) ==
  /\ Idle
  /\ UNCHANGED serverVars
  /\ UNCHANGED aside
  /\ req' = c
  /\ gen' = NoGen /\ facts' = <<>> /\ outcomes' = <<>>
  /\ calls' = NoCalls
  /\ resp' = NoResp
  /\ scroll' = StartScroll("client", c.user_id, c.agent_id, c.run_id)
  /\ UNCHANGED <<store, nextId, backend>>

clientCount(c) ==
  /\ Idle
  /\ UNCHANGED serverVars
  /\ UNCHANGED aside
  /\ req' = c
  /\ scroll' = IdleScroll
  /\ gen' = NoGen /\ facts' = <<>> /\ outcomes' = <<>>
  /\ calls' = [NoCalls EXCEPT !.count = 1]
  /\ UNCHANGED <<store, nextId, backend>>
  /\ \E ok \in BOOLEAN :
       IF ok
         THEN resp' = [NoResp EXCEPT !.op = "countPoints", !.status = 200,
                         !.count = countPoints(c.user_id, c.agent_id, c.run_id)]
         ELSE resp' = errorResponse("countPoints", "QdrantError", 500)

\* ------------------------------------------------------------------------
\* Specifications
\* ------------------------------------------------------------------------
\* The server after start-up against an empty collection and a backend
\* that pages honestly, one point or a full page at a time.
Init ==
  /\ store = {}
  /\ nextId = 1
  /\ backend \in {[mode |-> "honest", pageSize |-> ps] : ps \in {1, ScrollLimit}}
  /\ req = NoReq
  /\ gen = NoGen
  /\ facts = <<>>
  /\ outcomes = <<>>
  /\ calls = NoCalls
  /\ resp = NoResp
  /\ scroll = IdleScroll
  /\ qdrantReady = FALSE
  /\ boot = NotStarted
  /\ plugin = NoPlugin
  /\ adds = NoAdds

Add == \E body \in AddBodies : handleAdd(body)
Search == \E body \in SearchBodies : handleSearch(body)
Delete == \E path \in DeletePaths : handleDelete(path)
List == \E q \in Queries("list") : handleListMemories(q)
Count == \E q \in Queries("count") : handleCountMemories(q)
UpsertPoint == \E c \in ClientPayloads : clientUpsert(c)
SearchPoints == \E c \in ClientArgs("searchPoints") : clientSearch(c)
ScrollPoints == \E c \in ClientArgs("scrollPoints") : clientScroll(c)
CountPoints == \E c \in ClientArgs("countPoints") : clientCount(c)

Next ==
  \/ Add
  \/ Search
  \/ Delete
  \/ List
  \/ Count
  \/ ScrollStep
  \/ Respond

Spec == Init /\ [][Next]_vars

\* The vector store client called directly, as its own users call it.
NextClient ==
  \/ UpsertPoint
  \/ SearchPoints
  \/ ScrollPoints
  \/ CountPoints
  \/ ScrollStep
  \/ Respond

SpecClient == Init /\ [][NextClient]_vars

\* The vector store client paging through a collection that already holds
\* M points of user u1 (and one of u2), against a backend that serves pages
\* of P points and either ends the pagination or never does.
InitScroll ==
  /\ \E m \in 0..MaxPoints :
       /\ store = {Point(i, Fact1, "u1", Absent, Absent, NoTime) : i \in 1..m}
                  \cup {Point(m + 1, Fact2, "u2", Absent, Absent, NoTime)}
       /\ nextId = m + 2
  /\ backend \in {[mode |-> md, pageSize |-> ps] :
                    md \in {"honest", "endless"}, ps \in 1..MaxPageSize}
  /\ req = NoReq
  /\ gen = NoGen
  /\ facts = <<>>
  /\ outcomes = <<>>
  /\ calls = NoCalls
  /\ resp = NoResp
  /\ scroll = IdleScroll
  /\ qdrantReady = FALSE
  /\ boot = NotStarted
  /\ plugin = NoPlugin
  /\ adds = NoAdds

NextScroll ==
  \/ ScrollPoints
  \/ ScrollStep
  \/ Respond

SpecScroll == InitScroll /\ [][NextScroll]_vars

\* ------------------------------------------------------------------------
\* Server bootstrap: startServer and the fetch handler of Bun.serve
\* ------------------------------------------------------------------------
\* what ensureCollection met: the collection was there, was created, the
\* existence check could not be sent, or the creation was rejected
EnsureOutcomes == {"exists", "created", "unreachable", "createRejected"}

\* ensureCollection: Effect.void / the PUT's answer, or a QdrantError
ensureCollection(out) == out \in {"exists", "created"}

\* a bootstrap that marks the store ready whatever ensureCollection met
ReadyAfter_AlwaysReady(out) == TRUE

\* ensureInit: Effect.map sets qdrantReady = true, catchAll sets it false
ReadyAfter(out) == ensureCollection(out)

\* a bootstrap without the catchAll: the QdrantError fails the program
AfterEnsure_FailFast(out) == IF ensureCollection(out) THEN "serve" ELSE "exited"

\* where the program is after ensureInit: its catchAll returns Effect.void,
\* so Bun.serve is next in either case
AfterEnsure(out) == "serve"

ApiKeys == {"k1"}

\* AppConfig is read; a setting that does not parse fails the program and
\* the catch of Effect.runPromise calls process.exit(1)
LoadConfig ==
  /\ boot.pc = "config"
  /\ \E ok \in BOOLEAN :
       IF ok
         THEN \E key \in ApiKeys \cup {Absent} :
                boot' = [boot EXCEPT !.pc = "ensure", !.apiKeyValue = key]
         ELSE boot' = [boot EXCEPT !.pc = "exited"]
  /\ UNCHANGED <<store, nextId, backend, req, gen, facts, outcomes, calls, resp,
                 scroll, qdrantReady>>
  /\ UNCHANGED aside

EnsureInit ==
  /\ boot.pc = "ensure"
  /\ \E out \in EnsureOutcomes :
       /\ qdrantReady' = ReadyAfter(out)
       /\ boot' = [boot EXCEPT !.pc = AfterEnsure(out), !.ensure = out]
  /\ UNCHANGED <<store, nextId, backend, req, gen, facts, outcomes, calls, resp,
                 scroll>>
  /\ UNCHANGED aside

\* Bun.serve({port, fetch, error})
Serve ==
  /\ boot.pc = "serve"
  /\ boot' = [boot EXCEPT !.pc = "serving"]
  /\ UNCHANGED <<store, nextId, backend, req, gen, facts, outcomes, calls, resp,
                 scroll, qdrantReady>>
  /\ UNCHANGED aside

Startup == LoadConfig \/ EnsureInit \/ Serve

\* an Authorization header: missing, empty, or its words
Bearer(key) == <<"Bearer", key>>
AuthHeaders == {NoHeader, <<>>, Bearer("k1"), Bearer("k2"), <<"Basic", "k1">>, <<"k1">>}

\* a check that looks at the scheme only
checkAuth_SchemeOnly(key, auth) ==
  IF ~Truthy(key) THEN TRUE
  ELSE auth # NoHeader /\ auth # <<>> /\ auth[1] = "Bearer"

\* checkAuth(req) === null
checkAuth(key, auth) ==
  IF ~Truthy(key) THEN TRUE
  ELSE ~(auth = NoHeader \/ auth = <<>> \/ auth # Bearer(key))

\* the answer of GET /health
HealthAnswer(ready) ==
  IF ~ready
    THEN [NoResp EXCEPT !.op = "health", !.status = 503, !.health = "degraded"]
    ELSE [NoResp EXCEPT !.op = "health", !.status = 200, !.health = "ok"]

\* a response of fetch itself: no handler runs
Direct(r, response) ==
  /\ Idle
  /\ req' = r
  /\ resp' = response
  /\ gen' = NoGen /\ facts' = <<>> /\ outcomes' = <<>>
  /\ calls' = NoCalls
  /\ scroll' = IdleScroll
  /\ UNCHANGED <<store, nextId, backend, qdrantReady, boot>>
  /\ UNCHANGED aside

\* the requests the running server is sent: every route, each with every
\* Authorization header
Routed ==
  { AddBody(Some(ShortText), "u1", Absent, Absent),
    AddBody(None, "u1", Absent, Absent),
    SearchBody(Some(Fact1), "u1", Absent, Absent, FALSE, 0),
    Query("list", "u1", Absent, Absent),
    Query("count", "u1", Absent, Absent),
    DeletePath(0, <<>>),
    DeletePath(0, NotAUuid),
    [NoReq EXCEPT !.op = "health"],
    [NoReq EXCEPT !.op = "other"] }
  \cup { DeletePath(i, UUIDText(i)) : i \in 1..MaxIds }

Requests == { [r EXCEPT !.auth = h] : r \in Routed, h \in AuthHeaders }

\* fetch(req)
fetch(r) ==
  /\ boot.pc = "serving"
  /\ IF r.op = "health"
       THEN Direct(r, HealthAnswer(qdrantReady))
     ELSE IF ~checkAuth(boot.apiKeyValue, r.auth)
       THEN Direct(r, errorResponse(r.op, "Unauthorized", 401))
     ELSE IF r.op = "add" THEN handleAdd(r)
     ELSE IF r.op = "search" THEN handleSearch(r)
     ELSE IF r.op = "delete"
       THEN IF r.idText = <<>>
              THEN Direct(r, errorResponse("delete", "Missing memory ID", 400))
              ELSE handleDelete(r)
     ELSE IF r.op = "count" THEN handleCountMemories(r)
     ELSE IF r.op = "list" THEN handleListMemories(r)
     ELSE Direct(r, errorResponse(r.op, "Not found", 404))

Fetch == \E r \in Requests : fetch(r)

\* startServer() of a fresh process
InitServer ==
  /\ store = {}
  /\ nextId = 1
  /\ backend = [mode |-> "honest", pageSize |-> ScrollLimit]
  /\ req = NoReq
  /\ gen = NoGen
  /\ facts = <<>>
  /\ outcomes = <<>>
  /\ calls = NoCalls
  /\ resp = NoResp
  /\ scroll = IdleScroll
  /\ qdrantReady = FALSE
  /\ boot = [NotStarted EXCEPT !.pc = "config"]
  /\ plugin = NoPlugin
  /\ adds = NoAdds

NextServer ==
  \/ LoadConfig
  \/ EnsureInit
  \/ Serve
  \/ Fetch
  \/ ScrollStep
  \/ Respond

\* Effect.runPromise runs the program to its end: once the configuration
\* is read, ensureCollection has answered or failed, nothing stands between
\* the program and its next step.
SpecServer == InitServer /\ [][NextServer]_vars /\ WF_vars(Startup)

\* ------------------------------------------------------------------------
\* The plugin: the hooks it registers and the two calls it makes
\* ------------------------------------------------------------------------
\* The repository holds three revisions of the plugin entry.
PluginRevs == {"index.ts", "part_001", "part_002"}

DefaultTopK == 5
MinPromptLen == 5

\* the messages slice(-k) keeps
CaptureWindow(rev) == IF rev = "part_001" THEN 6 ELSE 10

\* MAX_CONTENT
MaxContent == 500

PluginConfigs ==
  { [rev |-> rv, userId |-> "u1", autoRecall |-> ar, autoCapture |-> ac,
     hasTopK |-> t[1], topK |-> t[2]] :
      rv \in PluginRevs, ar \in BOOLEAN, ac \in BOOLEAN,
      t \in {<<FALSE, 0>>, <<TRUE, 3>>} }

\* cfg.topK ?? 5
TopK(cfg) == IF cfg.hasTopK THEN cfg.topK ELSE DefaultTopK

NoReturn == [kind |-> "none", header |-> "", lines |-> <<>>]

\* the plugin between two hooks
IdlePlugin(cfg) ==
  [pc |-> "idle", cfg |-> cfg, hook |-> "none", prompt |-> None,
   success |-> "absent", messages |-> None, reply |-> "none", found |-> <<>>,
   searched |-> <<>>, added |-> <<>>, ret |-> NoReturn, warns |-> 0, infos |-> 0]

\* What the server (or the network) answers a call of the plugin:
\*   neterr    fetch rejects          httperr   !res.ok
\*   nojson    res.json() rejects     noresults a JSON body without results
\*   ok        {results: [...]}
ReplyKinds == {"neterr", "httperr", "nojson", "noresults", "ok"}

\* whether mem0Search / mem0Add return (rather than throw) on a reply:
\* index.ts reads data.results ?? [], the later revisions decode the body
\* with a schema that requires results
CallReturns(rev, kind) ==
  \/ kind = "ok"
  \/ kind = "noresults" /\ rev = "index.ts"

\* String.prototype.trim()
RECURSIVE TrimStart(_)
TrimStart(t) ==
  IF t = <<>> THEN <<>>
  ELSE IF Head(t).ch = " " THEN TrimStart(Tail(t)) ELSE t

RECURSIVE TrimEnd(_)
TrimEnd(t) ==
  IF t = <<>> THEN <<>>
  ELSE IF t[Len(t)].ch = " " THEN TrimEnd(SubSeq(t, 1, Len(t) - 1)) ELSE t

Trim(t) == TrimEnd(TrimStart(t))

\* messages.slice(-k)
LastK(ms, k) == IF Len(ms) <= k THEN ms ELSE SubSeq(ms, Len(ms) - k + 1, Len(ms))

\* the condition under which before_agent_start returns {} at once:
\*   index.ts            if (!prompt) return {}
\*   part_001, part_002  if (prompt.length < 5) return {}
SkipsRecall(rev, prompt) ==
  IF rev = "index.ts" THEN TextLen(prompt) = 0
  ELSE TextLen(prompt) < MinPromptLen

\* the prependContext built from the results: a header and one line for
\* each result, `${i + 1}. ${r.memory}` or `- ${r.memory}`
PrependContext(rev, results) ==
  [kind |-> "context",
   header |-> IF rev = "index.ts" THEN "Relevant memories from past conversations:"
              ELSE "<relevant-memories>",
   lines |-> [i \in 1..Len(results) |->
                [prefix |-> IF rev = "index.ts" THEN "n." ELSE "-",
                 text |-> results[i]]]]

EmptyReturn == [NoReturn EXCEPT !.kind = "empty"]

Prompts == {None, Some(<<>>), Some(Str("h", 2)), Some(Str("w", MinPromptLen - 1)),
            Some(Str("w", MinPromptLen)), Some(Str("w", 15))}

\* the before_agent_start hook
beforeAgentStart(prompt, kind, found) ==
  /\ plugin.pc = "idle"
  /\ plugin.cfg.autoRecall
  /\ LET rev == plugin.cfg.rev
         text == IF prompt.some THEN prompt.v ELSE <<>>
         base == [plugin EXCEPT !.pc = "done", !.hook = "before_agent_start",
                                !.prompt = prompt]
     IN IF SkipsRecall(rev, text)
          THEN /\ kind = "none" /\ found = <<>>
               /\ plugin' = [base EXCEPT !.ret = EmptyReturn]
          ELSE /\ kind \in ReplyKinds
               /\ (kind # "ok" => found = <<>>)
               /\ LET call == [query |-> text, user_id |-> plugin.cfg.userId,
                               limit |-> TopK(plugin.cfg)]
                      sent == [base EXCEPT !.searched = <<call>>, !.reply = kind,
                                           !.found = found]
                  IN IF ~CallReturns(rev, kind)
                       THEN plugin' = [sent EXCEPT !.ret = EmptyReturn, !.warns = 1]
                     ELSE IF Len(found) = 0
                       THEN plugin' = [sent EXCEPT !.ret = EmptyReturn]
                     ELSE plugin' = [sent EXCEPT !.ret = PrependContext(rev, found),
                                                 !.infos = 1]
  /\ UNCHANGED <<store, nextId, backend, req, gen, facts, outcomes, calls, resp,
                 scroll, qdrantReady, boot, adds>>

\* an event's messages: message i says "m" i times, users and assistants
\* taking turns; or system messages only
Turns(n) ==
  [i \in 1..n |-> [role |-> IF i % 2 = 1 THEN "user" ELSE "assistant",
                   content |-> Str("m", i)]]
SystemOnly(n) == [i \in 1..n |-> [role |-> "system", content |-> Str("s", i)]]

EventMessages ==
  {None, Some(<<>>), Some(Turns(1)), Some(Turns(2)), Some(SystemOnly(1)),
   Some(SystemOnly(2) \o Turns(1)),
   Some(<<[role |-> "user", content |-> BlankText]>>),
   Some(Turns(7)), Some(Turns(MaxMessages))}

\* the condition under which agent_end returns before looking at the roles:
\*   index.ts            never (the messages default to [])
\*   part_001, part_002  if (!ev.success || !ev.messages?.length) return
SkipsCapture(rev, success, messages) ==
  IF rev = "index.ts" THEN FALSE
  ELSE success # "true" \/ ~messages.some \/ Len(messages.v) = 0

RECURSIVE SelectRoles(_)
SelectRoles(ms) ==
  IF ms = <<>> THEN <<>>
  ELSE (IF Head(ms).role \in {"user", "assistant"} THEN <<Head(ms)>> ELSE <<>>)
       \o SelectRoles(Tail(ms))

\* the messages the hook formats: the last ones, in the later revisions
\* those of role user or assistant among them
Recent(rev, messages) ==
  LET ms == IF messages.some THEN messages.v ELSE <<>>
      last == LastK(ms, CaptureWindow(rev))
  IN IF rev = "index.ts" THEN last ELSE SelectRoles(last)

RoleLabel(m) == IF m.role = "assistant" THEN "Assistant" ELSE "User"

\* the lines of the text sent to /add; part_001 trims and cuts each content
\* and drops the messages that are left without text
RECURSIVE Formatted(_, _)
Formatted(rev, ms) ==
  IF ms = <<>> THEN <<>>
  ELSE LET m == Head(ms)
           text == IF rev = "part_001" THEN Slice(Trim(m.content), MaxContent)
                   ELSE m.content
       IN (IF rev = "part_001" /\ text = <<>> THEN <<>>
           ELSE <<[label |-> RoleLabel(m), text |-> text]>>)
          \o Formatted(rev, Tail(ms))

\* the body mem0Add posts:
\*   index.ts, part_002  {messages, agent_id: userId, user_id: userId}
\*   part_001            {messages, user_id: userId}
AddCallBody(rev, messages, userId) ==
  [messages |-> messages, user_id |-> userId,
   agent_id |-> IF rev = "part_001" THEN Absent ELSE userId]

\* the agent_end hook
agentEnd(success, messages, kind) ==
  /\ plugin.pc = "idle"
  /\ plugin.cfg.autoCapture
  /\ LET rev == plugin.cfg.rev
         recent == Recent(rev, messages)
         base == [plugin EXCEPT !.pc = "done", !.hook = "agent_end",
                                !.success = success, !.messages = messages,
                                !.ret = [NoReturn EXCEPT !.kind = "undefined"]]
     IN IF SkipsCapture(rev, success, messages) \/ Len(recent) = 0
          THEN /\ kind = "none"
               /\ plugin' = base
          ELSE /\ kind \in ReplyKinds
               /\ LET call == AddCallBody(rev, Formatted(rev, recent), plugin.cfg.userId)
                      sent == [base EXCEPT !.added = <<call>>, !.reply = kind]
                  IN IF ~CallReturns(rev, kind)
                       THEN plugin' = [sent EXCEPT !.warns = 1]
                       ELSE plugin' = [sent EXCEPT !.infos = 1]
  /\ UNCHANGED <<store, nextId, backend, req, gen, facts, outcomes, calls, resp,
                 scroll, qdrantReady, boot, adds>>

\* the hook has returned; the plugin waits for the next event
PluginReturns ==
  /\ plugin.pc = "done"
  /\ plugin' = IdlePlugin(plugin.cfg)
  /\ UNCHANGED <<store, nextId, backend, req, gen, facts, outcomes, calls, resp,
                 scroll, qdrantReady, boot, adds>>

\* plugin(api) has run with one of the configurations
InitPlugin ==
  /\ store = {}
  /\ nextId = 1
  /\ backend = [mode |-> "honest", pageSize |-> ScrollLimit]
  /\ req = NoReq
  /\ gen = NoGen
  /\ facts = <<>>
  /\ outcomes = <<>>
  /\ calls = NoCalls
  /\ resp = NoResp
  /\ scroll = IdleScroll
  /\ qdrantReady = FALSE
  /\ boot = NotStarted
  /\ plugin \in {IdlePlugin(cfg) : cfg \in PluginConfigs}
  /\ adds = NoAdds

\* the events: prompts with zero to two memories found for them; runs
\* whose success is true, false or missing
NextPlugin ==
  \/ \E prompt \in Prompts, kind \in ReplyKinds \cup {"none"},
        found \in {<<>>, <<Fact1>>, <<Fact1, Fact2>>} :
       beforeAgentStart(prompt, kind, found)
  \/ \E success \in {"true", "false", "absent"}, messages \in EventMessages,
        kind \in ReplyKinds \cup {"none"} :
       agentEnd(success, messages, kind)
  \/ PluginReturns

SpecPlugin == InitPlugin /\ [][NextPlugin]_vars

\* ------------------------------------------------------------------------
\* handleAdd, step by step: requests in flight together
\* ------------------------------------------------------------------------
\* Bun.serve starts a handleAdd for every request it routes to /add, and
\* Effect.forEach with inherited concurrency starts a pipeline for every
\* fact; the steps of all of them interleave.
Slots == {1, 2}

\* a request that has not arrived
IdleAdd ==
  [pc |-> "idle", body |-> NoReq, gen |-> NoGen, facts |-> <<>>, now |-> 0,
   status |-> <<>>, ids |-> <<>>, embeds |-> <<>>, upserts |-> <<>>,
   finished |-> <<>>, resp |-> NoResp]

StepBodies ==
  { AddBody(Some(ShortText), u, Absent, Absent) : u \in Users }
  \cup { [NoReq EXCEPT !.op = "add", !.jsonOk = FALSE] }

OtherVars == <<backend, req, gen, facts, outcomes, calls, resp, scroll,
               qdrantReady, boot, plugin>>

\* parseBody: the request is decoded, or answered 400
Receive(s, body) ==
  /\ adds[s].pc = "idle"
  /\ adds' = [adds EXCEPT ![s] =
       IF ~body.jsonOk
         THEN [@ EXCEPT !.pc = "done", !.body = body,
                        !.resp = errorResponse("add", "Invalid JSON body", 400)]
       ELSE IF ~ValidAdd(body)
         THEN [@ EXCEPT !.pc = "done", !.body = body,
                        !.resp = errorResponse("add", "Validation failed", 400)]
       ELSE [@ EXCEPT !.pc = "extract", !.body = body]]
  /\ UNCHANGED <<store, nextId>>
  /\ UNCHANGED OtherVars

\* ollama.extractFacts(body.messages); zero facts are answered at once,
\* otherwise `now` is taken and a pipeline is started for every fact
Extract(s, g) ==
  /\ adds[s].pc = "extract"
  /\ LET fs == extractFacts(adds[s].body.messages.v, g)
     IN adds' = [adds EXCEPT ![s] =
          IF Len(fs) = 0
            THEN [@ EXCEPT !.pc = "done", !.gen = g, !.resp = EmptyAddResponse]
            ELSE [@ EXCEPT !.pc = "facts", !.gen = g, !.facts = fs, !.now = nextId,
                           !.status = [i \in 1..Len(fs) |-> "todo"],
                           !.ids = [i \in 1..Len(fs) |-> 0],
                           !.embeds = [i \in 1..Len(fs) |-> 0],
                           !.upserts = [i \in 1..Len(fs) |-> 0]]]
  /\ UNCHANGED <<store, nextId>>
  /\ UNCHANGED OtherVars

\* ollama.embed(fact) of one pipeline; on success the continuation draws
\* the point's id, on failure catchAll turns the pipeline into null
EmbedFact(s, i, ok) ==
  /\ adds[s].pc = "facts"
  /\ i \in 1..Len(adds[s].facts)
  /\ adds[s].status[i] = "todo"
  /\ IF ok
       THEN /\ adds' = [adds EXCEPT ![s].status[i] = "embedded",
                                    ![s].ids[i] = nextId,
                                    ![s].embeds[i] = @ + 1]
            /\ nextId' = nextId + 1
       ELSE /\ adds' = [adds EXCEPT ![s].status[i] = "embedFail",
                                    ![s].embeds[i] = @ + 1,
                                    ![s].finished = Append(@, i)]
            /\ UNCHANGED nextId
  /\ UNCHANGED store
  /\ UNCHANGED OtherVars

\* a pipeline that files every point under the first request's user
PayloadUser_FirstRequest(s) == adds[1].body.user_id

\* user_id: body.user_id, the body of the request the pipeline belongs to
PayloadUser(s) == adds[s].body.user_id

\* qdrant.upsertPoint(id, vector, {memory: fact, user_id, created_at: now})
UpsertFact(s, i, ok) ==
  /\ adds[s].pc = "facts"
  /\ i \in 1..Len(adds[s].facts)
  /\ adds[s].status[i] = "embedded"
  /\ adds' = [adds EXCEPT ![s].status[i] = IF ok THEN "ok" ELSE "upsertFail",
                          ![s].upserts[i] = @ + 1,
                          ![s].finished = Append(@, i)]
  /\ IF ok
       THEN store' = Upserted(store, Point(adds[s].ids[i], adds[s].facts[i],
                                            PayloadUser(s), Absent, Absent,
                                            adds[s].now))
       ELSE UNCHANGED store
  /\ UNCHANGED nextId
  /\ UNCHANGED OtherVars

\* a forEach that gives up at the first pipeline that failed
AllSettled_UntilFailure(a) ==
  \/ \A i \in 1..Len(a.facts) : a.status[i] \in {"ok", "embedFail", "upsertFail"}
  \/ \E i \in 1..Len(a.facts) : a.status[i] \in {"embedFail", "upsertFail"}

\* Effect.forEach returns when every pipeline has returned
AllSettled(a) ==
  \A i \in 1..Len(a.facts) : a.status[i] \in {"ok", "embedFail", "upsertFail"}

\* the result of the pipeline of fact i: a record, or null
RECURSIVE ResultsFrom(_, _)
ResultsFrom(a, i) ==
  IF i > Len(a.facts) THEN <<>>
  ELSE (IF a.status[i] = "ok"
          THEN <<[id |-> a.ids[i], memory |-> a.facts[i], event |-> "ADD"]>>
          ELSE <<>>)
       \o ResultsFrom(a, i + 1)

\* results collected as the pipelines finish
RECURSIVE Collected_AsFinished(_, _)
Collected_AsFinished(a, k) ==
  IF k > Len(a.finished) THEN <<>>
  ELSE (IF a.status[a.finished[k]] = "ok"
          THEN <<[id |-> a.ids[a.finished[k]], memory |-> a.facts[a.finished[k]],
                  event |-> "ADD"]>>
          ELSE <<>>)
       \o Collected_AsFinished(a, k + 1)

\* forEach's array, in the order of the facts, without the nulls
Collected(a, k) == ResultsFrom(a, k)

\* the response once forEach has returned
Finish(s) ==
  /\ adds[s].pc = "facts"
  /\ AllSettled(adds[s])
  /\ LET stored == Collected(adds[s], 1)
     IN adds' = [adds EXCEPT ![s].pc = "done",
                   ![s].resp = AddResponse(stored, Len(adds[s].facts) - Len(stored))]
  /\ UNCHANGED <<store, nextId>>
  /\ UNCHANGED OtherVars

InitAdd ==
  /\ store = {}
  /\ nextId = 1
  /\ backend = [mode |-> "honest", pageSize |-> ScrollLimit]
  /\ req = NoReq
  /\ gen = NoGen
  /\ facts = <<>>
  /\ outcomes = <<>>
  /\ calls = NoCalls
  /\ resp = NoResp
  /\ scroll = IdleScroll
  /\ qdrantReady = FALSE
  /\ boot = NotStarted
  /\ plugin = NoPlugin
  /\ adds = [s \in Slots |-> IdleAdd]

NextAdd ==
  \/ \E s \in Slots, body \in StepBodies : Receive(s, body)
  \/ \E s \in Slots, g \in GenOutcomes : Extract(s, g)
  \/ \E s \in Slots, i \in 1..2, ok \in BOOLEAN : EmbedFact(s, i, ok)
  \/ \E s \in Slots, i \in 1..2, ok \in BOOLEAN : UpsertFact(s, i, ok)
  \/ \E s \in Slots : Finish(s)

SpecAdd == InitAdd /\ [][NextAdd]_vars

\* ------------------------------------------------------------------------
\* Properties
\* ------------------------------------------------------------------------
\* the facts of the last add and how many of them failed to be stored
N == Len(facts)
K == Cardinality({i \in 1..Len(outcomes) : outcomes[i] # "ok"})
AddExtracted == resp.op = "add" /\ calls.extractFacts = 1
ReportedFailed == IF resp.hasFailed THEN resp.failed ELSE 0

AllStored == AddExtracted /\ N >= 1 /\ \A i \in 1..N : outcomes[i] = "ok"

InvalidRequest ==
  \/ /\ req.op = "add"
     /\ \/ ~req.jsonOk
        \/ ~req.messages.some
        \/ TextLen(req.messages.v) > 50000
  \/ /\ req.op = "search"
     /\ \/ ~req.jsonOk
        \/ ~req.query.some
        \/ TextLen(req.query.v) > 1000
        \/ req.user_id = Absent
        \/ req.hasLimit /\ (req.limit < 1 \/ req.limit > 100)
  \/ /\ req.op \in {"list", "count"}
     /\ req.user_id = Absent

\* C3: a request that fails validation is answered 400 and makes no call
\* to the fact provider or to the vector store.
C3_ValidationNoSideEffects ==
  InvalidRequest =>
    /\ resp.status = 400
    /\ \A c \in DOMAIN calls : calls[c] = 0
    /\ scroll.pc = "idle"

C3_Witness ==
  /\ req.op = "search" /\ req.hasLimit /\ req.limit > 100
  /\ resp.status = 400 /\ store # {}

\* C4: an add whose user_id is missing or the empty string is answered 400
\* "Validation failed" and stores nothing.
C4_EmptyUserIdRejected ==
  (resp.op = "add" /\ req.jsonOk /\ req.messages.some
     /\ TextLen(req.messages.v) <= 50000 /\ req.user_id \in {Absent, ""}) =>
    /\ resp.status = 400
    /\ resp.error = "Validation failed"
    /\ calls.upsert = 0

\* f is the first k characters of m (all of m when m is shorter)
IsFirstChars(f, m, k) ==
  /\ TextLen(f) = (IF TextLen(m) < k THEN TextLen(m) ELSE k)
  /\ \A i \in 1..TextLen(f) : CharAt(f, i) = CharAt(m, i)

\* C5: when the generation backend fails (transport, HTTP status, decode)
\* or answers text that is not JSON, extractFacts returns exactly one fact,
\* the first 500 characters of the conversation text, and the add request
\* is answered 200.
C5_ExtractionFallback ==
  (resp.op = "add" /\ gen.kind \in {"neterr", "httperr", "baddecode", "nonjson"}) =>
    /\ Len(facts) = 1
    /\ IsFirstChars(facts[1], req.messages.v, 500)
    /\ resp.status = 200

C5_Witness ==
  /\ resp.op = "add" /\ gen.kind = "nonjson"
  /\ TextLen(req.messages.v) = 501 /\ TextLen(facts[1]) = 500
  /\ resp.status = 200

\* C6: after a successful add with (user_id, agent_id, run_id) every stored
\* point of the response carries that user_id, agent_id and run_id.
C6_PayloadCarriesIdentity ==
  (resp.op = "add" /\ resp.status = 200) =>
    \A i \in 1..Len(resp.results) :
      \E p \in store :
        /\ p.id = resp.results[i].id
        /\ p.user_id = req.user_id
        /\ p.agent_id = req.agent_id
        /\ p.run_id = req.run_id

\* the ids of the stored points a (user, agent, run) identity covers: the
\* user's points, narrowed by every dimension that is supplied
Visible(u, a, r) ==
  {p.id : p \in {q \in store :
                   /\ q.user_id = u
                   /\ (a \notin {Absent, ""}) => q.agent_id = a
                   /\ (r \notin {Absent, ""}) => q.run_id = r}}

SeqIds(ms) == {ms[i].id : i \in 1..Len(ms)}

\* C7: on one data set and for one (userId, agentId, runId), search (with a
\* limit that covers the matches), list and count of the vector store client
\* see the same points: search and list return the ids the identity covers
\* and count returns how many they are.
C7_SameFilterEverywhere ==
  LET vis == Visible(req.user_id, req.agent_id, req.run_id)
  IN /\ (resp.op = "searchPoints" /\ resp.status = 200
           /\ req.limit >= Cardinality(vis)) =>
          {h.id : h \in resp.hits} = vis
     /\ (resp.op = "scrollPoints" /\ resp.status = 200) =>
          SeqIds(resp.memories) = vis
     /\ (resp.op = "countPoints" /\ resp.status = 200) =>
          resp.count = Cardinality(vis)

C7_Witness ==
  /\ resp.op = "scrollPoints" /\ resp.status = 200
  /\ req.agent_id = "a1" /\ Len(resp.memories) >= 1
  /\ \E p \in store : p.user_id = req.user_id /\ p.agent_id # "a1"

\* C8: the search, list and count handlers return or count only memories
\* that match user_id and every supplied agent_id / run_id.
C8_HandlersForwardDimensions ==
  LET vis == Visible(req.user_id, req.agent_id, req.run_id)
  IN /\ (resp.op = "search" /\ resp.status = 200) =>
          {h.id : h \in resp.hits} \subseteq vis
     /\ (resp.op = "list" /\ resp.status = 200) =>
          SeqIds(resp.memories) = vis
     /\ (resp.op = "count" /\ resp.status = 200) =>
          resp.count = Cardinality(vis)

\* the matching points of the scroll in hand and the page size served
ScrollM == Cardinality(Visible(req.user_id, req.agent_id, req.run_id))
ScrollP == IF backend.pageSize < 250 THEN backend.pageSize ELSE 250
CeilDiv(m, p) == (m + p - 1) \div p

ScrolledAll ==
  /\ resp.op = "scrollPoints" /\ resp.status = 200
  /\ backend.mode = "honest"
  /\ ScrollM > ScrollP

\* C9: scrollPoints over a backend serving pages of P points for M > P
\* matching points makes ceil(M/P) requests, sends every next_page_offset
\* it got as the offset of the following request, and returns all M points,
\* each once.
C9_Pagination ==
  ScrolledAll =>
    /\ calls.scroll = CeilDiv(ScrollM, ScrollP)
    /\ Len(scroll.sent) = calls.scroll
    /\ scroll.sent[1] = NoOffset
    /\ \A i \in 1..(Len(scroll.sent) - 1) : scroll.sent[i + 1] = scroll.got[i]
    /\ Len(resp.memories) = ScrollM
    /\ SeqIds(resp.memories) = Visible(req.user_id, req.agent_id, req.run_id)

C9_Witness ==
  ScrolledAll /\ ScrollP = 1 /\ ScrollM = 3 /\ calls.scroll = 3

\* C10: against a backend that never ends the pagination scrollPoints makes
\* at most 100 page requests.
C10_AtMost100Requests ==
  backend.mode = "endless" => calls.scroll <= 100

\* a 36-character text of five hyphen-separated groups of 8, 4, 4, 4 and 12
\* hexadecimal digits
WellFormedUUID(t) ==
  /\ TextLen(t) = 36
  /\ \A i \in 1..36 :
       CharAt(t, i) = "-" <=> i \in {9, 14, 19, 24}
  /\ \A i \in 1..36 : CharAt(t, i) \in HexChars \cup {"-"}

\* the error messages of the server that contain "UUID"
UUIDMessages == {"Invalid memory ID: must be a valid UUID"}

\* C11: a delete whose path id is not a well-formed UUID is answered 400
\* with a message containing "UUID" and makes no deletePoint call.
C11_InvalidUuidRejected ==
  (req.op = "delete" /\ ~WellFormedUUID(req.idText)) =>
    /\ resp.status = 400
    /\ resp.error \in UUIDMessages
    /\ calls.delete = 0

C11_Witness ==
  /\ req.op = "delete" /\ req.idText = NotAUuid
  /\ resp.status = 400 /\ store # {}

\* the step is a delete of a well-formed id whose deletePoint succeeded
DeleteDone ==
  /\ resp = NoResp /\ resp' # NoResp
  /\ req'.op = "delete" /\ WellFormedUUID(req'.idText)
  /\ outcomes' = <<"ok">>

StoredIds(S) == {p.id : p \in S}

\* C12: a delete of a well-formed id whose storage call succeeds answers
\* {success: true} whether or not the id is stored; it removes the point of
\* that id and nothing else, so an id that is not stored leaves the store
\* unchanged, and after it the id is not stored: a second delete of the
\* same id starts where the first ended, answers the same and changes
\* nothing.
C12_DeleteIdempotent ==
  [][DeleteDone =>
       /\ resp'.status = 200 /\ resp'.success /\ resp'.error = ""
       /\ store' = {p \in store : p.id # req'.id}
       /\ req'.id \notin StoredIds(store) => store' = store
       /\ req'.id \notin StoredIds(store')
       /\ Deleted(store', req'.id) = store']_vars

C12_Witness ==
  /\ req.op = "delete" /\ req.id = MaxIds + 1 /\ outcomes = <<"ok">>
  /\ resp.status = 200 /\ resp.success
  /\ Cardinality(store) = MaxIds

\* C13: a search whose embed fails is answered 500 "Search failed" without
\* any searchPoints call and without results; a search whose searchPoints
\* fails after the embed succeeded is answered 500 "Search failed" as well.
C13_SearchFailuresAre500 ==
  /\ (req.op = "search" /\ outcomes = <<"embedFail">>) =>
       /\ resp.status = 500 /\ resp.error = "Search failed"
       /\ calls.embed = 1 /\ calls.search = 0
       /\ resp.hits = {}
  /\ (req.op = "search" /\ outcomes = <<"searchFail">>) =>
       /\ resp.status = 500 /\ resp.error = "Search failed"
       /\ calls.embed = 1 /\ calls.search = 1
       /\ resp.hits = {}

C13_Witness ==
  /\ req.op = "search" /\ outcomes = <<"embedFail">>
  /\ resp.status = 500 /\ calls.search = 0
  /\ \E p \in store : p.user_id = req.user_id

\* C14: a search whose query is the empty string is answered 400 and makes
\* neither an embed nor a searchPoints call.
C14_EmptyQueryRejected ==
  (req.op = "search" /\ req.jsonOk /\ req.query.some /\ TextLen(req.query.v) = 0) =>
    /\ resp.status = 400
    /\ calls.embed = 0 /\ calls.search = 0

\* C15: searchPoints is called with limit 5 when the request has no limit
\* and with the request's limit otherwise; a request whose limit is outside
\* 1..100 is answered 400 and reaches no searchPoints, so every limit
\* searchPoints is called with lies within 1..100.
C15_LimitDefaultAndRange ==
  /\ (req.op = "search" /\ calls.search = 1) =>
       /\ calls.searchLimit = (IF req.hasLimit THEN req.limit ELSE 5)
       /\ 1 <= calls.searchLimit /\ calls.searchLimit <= 100
  /\ (req.op = "search" /\ req.jsonOk /\ req.hasLimit
         /\ (req.limit < 1 \/ req.limit > 100)) =>
       /\ resp.status = 400
       /\ calls.search = 0

C15_Witness ==
  /\ req.op = "search" /\ ~req.hasLimit
  /\ calls.search = 1 /\ calls.searchLimit = 5
  /\ resp.status = 200 /\ resp.hits # {}

\* how the ensureCollection of the start-up went
EnsureOk == boot.ensure \in {"exists", "created"}
EnsureFailed == boot.ensure \in {"unreachable", "createRejected"}

\* C16: while the server serves, the ready flag says whether the start-up
\* ensureCollection succeeded, every GET /health is answered 200 "ok" if it
\* did and 503 "degraded" if it did not, and no request (add, search,
\* delete, list, count, whatever its outcome) writes the flag or changes
\* what GET /health answers.
C16_HealthReflectsStartup ==
  /\ [](boot.pc = "serving" =>
         /\ qdrantReady <=> EnsureOk
         /\ ~qdrantReady <=> EnsureFailed
         /\ (req.op = "health" /\ resp # NoResp) =>
              IF EnsureOk
                THEN resp.status = 200 /\ resp.health = "ok"
                ELSE resp.status = 503 /\ resp.health = "degraded")
  /\ [][boot.pc = "serving" =>
          /\ qdrantReady' = qdrantReady
          /\ HealthAnswer(qdrantReady)' = HealthAnswer(qdrantReady)]_vars

C16_Witness ==
  /\ boot.pc = "serving" /\ boot.ensure = "createRejected"
  /\ req.op = "health" /\ resp.status = 503 /\ resp.health = "degraded"
  /\ store # {}

\* C17: when ensureCollection fails at start-up (the existence check cannot
\* be sent, or the creation is rejected) the process never exits, and the
\* server comes to serve requests with GET /health answering degraded.
C17_StartsDegraded ==
  /\ [](EnsureFailed => boot.pc # "exited")
  /\ EnsureFailed ~>
       (boot.pc = "serving" /\ HealthAnswer(qdrantReady).health = "degraded")

C17_Witness ==
  /\ boot.pc = "serving" /\ boot.ensure = "unreachable" /\ ~qdrantReady
  /\ req.op = "add" /\ resp.status = 200 /\ Len(resp.results) = 1

\* the request in hand needs the key and does not carry it
Unauthorized ==
  /\ boot.apiKeyValue \in ApiKeys
  /\ req.op \notin {"none", "health"}
  /\ req.auth # <<"Bearer", boot.apiKeyValue>>

\* C20: with an API key configured, a request other than GET /health whose
\* Authorization header is missing or is not "Bearer <key>" is answered 401
\* and no handler runs: no fact-provider call, no storage call, no scroll;
\* GET /health is answered 200 or 503 whatever header it carries.
C20_AuthBeforeHandlers ==
  /\ Unauthorized =>
       /\ resp.status = 401 /\ resp.error = "Unauthorized"
       /\ \A c \in DOMAIN calls : calls[c] = 0
       /\ scroll.pc = "idle"
       /\ gen = NoGen /\ facts = <<>> /\ outcomes = <<>>
  /\ (req.op = "health" /\ resp # NoResp) => resp.status \in {200, 503}

C20_Witness ==
  /\ boot.apiKeyValue = "k1"
  /\ req.op = "add" /\ req.messages.some /\ req.auth = <<"Bearer", "k2">>
  /\ resp.status = 401 /\ store # {}

\* C18: over every step of the handlers a stored point that is still
\* stored afterwards is the same point (text, user_id, created_at and the
\* rest of its payload); a point leaves the store only in a delete of its
\* id; and a point enters the store only in an add, under an id that was
\* not stored and that no earlier add was handed.
C18_MemoriesImmutable ==
  [][/\ \A p \in store :
          IF p.id \in StoredIds(store')
            THEN p \in store'
            ELSE req'.op = "delete" /\ req'.id = p.id /\ outcomes' = <<"ok">>
      /\ \A q \in store' \ store :
          /\ req'.op = "add"
          /\ q.id \notin StoredIds(store)
          /\ q.id >= nextId
      /\ Cardinality(StoredIds(store')) = Cardinality(store')]_vars

C18_Witness ==
  /\ req.op = "add" /\ resp.status = 200 /\ req.user_id = "u2"
  /\ \E p \in store : p.id = 1 /\ p.user_id = "u1" /\ p.created_at = 1
  /\ \E q \in store : q.id = 2 /\ q.user_id = "u2" /\ q.created_at = 2

\* the step is an add whose extractFacts returned no fact
AddOfNoFacts ==
  /\ resp = NoResp /\ resp'.op = "add"
  /\ calls'.extractFacts = 1 /\ facts' = <<>>

\* C19: an add whose extractFacts returns zero facts answers 200 with
\* {results: [], failed: 0}, makes no embed and no upsert call and leaves
\* the store as it was.
C19_NoFactsNoWrites ==
  [][AddOfNoFacts =>
       /\ resp'.status = 200 /\ resp'.results = <<>>
       /\ resp'.hasFailed /\ resp'.failed = 0
       /\ calls'.embed = 0 /\ calls'.upsert = 0
       /\ store' = store]_vars

C19_Witness ==
  /\ resp.op = "add" /\ calls.extractFacts = 1 /\ facts = <<>>
  /\ resp.status = 200 /\ resp.hasFailed /\ resp.failed = 0
  /\ store # {}

RecallDone == plugin.pc = "done" /\ plugin.hook = "before_agent_start"
SearchFailed == plugin.reply \in {"neterr", "httperr", "nojson"}

\* C21: before_agent_start never throws: with a missing prompt or one of
\* fewer than 5 characters it returns {} and calls no search; when the search
\* fails it logs a warning and returns {}; when the search returns no result
\* it returns {}; otherwise it returns a prependContext that holds every
\* returned memory, and the search was made with the configured topK as limit.
C21_RecallNeverThrows ==
  RecallDone =>
    /\ plugin.ret.kind \in {"empty", "context"}
    /\ (~plugin.prompt.some \/ TextLen(plugin.prompt.v) < 5)
         => plugin.searched = <<>> /\ plugin.ret.kind = "empty"
    /\ \A i \in 1..Len(plugin.searched) :
         /\ plugin.searched[i].limit = TopK(plugin.cfg)
         /\ SearchFailed => plugin.ret.kind = "empty" /\ plugin.warns = 1
         /\ plugin.found = <<>> => plugin.ret.kind = "empty"
         /\ (~SearchFailed /\ plugin.found # <<>>)
              => /\ plugin.ret.kind = "context"
                 /\ \A k \in 1..Len(plugin.found) :
                      \E l \in 1..Len(plugin.ret.lines) :
                        plugin.ret.lines[l].text = plugin.found[k]

CaptureDone == plugin.pc = "done" /\ plugin.hook = "agent_end"
Considered == LastK(IF plugin.messages.some THEN plugin.messages.v ELSE <<>>, 6)
NothingToCapture ==
  \/ plugin.success # "true"
  \/ ~plugin.messages.some
  \/ \A i \in 1..Len(Considered) : Considered[i].role \notin {"user", "assistant"}

\* C22: agent_end issues no /add when the event's success is false, when its
\* messages are missing or empty, or when none of the considered messages has
\* role user or assistant; otherwise it issues exactly one /add, built only
\* from the last 6 messages; a failing add is logged as a warning and the
\* hook still returns normally.
C22_CaptureAtMostOnce ==
  CaptureDone =>
    /\ plugin.ret.kind = "undefined"
    /\ NothingToCapture => plugin.added = <<>>
    /\ ~NothingToCapture =>
         /\ Len(plugin.added) = 1
         /\ \A l \in 1..Len(plugin.added[1].messages) :
              \E i \in 1..Len(Considered) :
                /\ plugin.added[1].messages[l].text = Considered[i].content
                /\ plugin.added[1].messages[l].label = RoleLabel(Considered[i])
         /\ plugin.reply \in {"neterr", "httperr", "nojson"} => plugin.warns = 1

\* C23: every body mem0Add posts carries the messages and the user id, and
\* carries no agent_id, the plugin having been given no agent identifier:
\* the agent identifier is never defaulted to the user identifier.
C23_AgentNeverDefaulted ==
  \A i \in 1..Len(plugin.added) :
    /\ plugin.added[i].user_id = plugin.cfg.userId
    /\ plugin.added[i].agent_id = Absent

ArrayFields == {i \in 1..Len(gen.fields) : gen.fields[i].isArr}
IsString(e) == e.isStr
IsNonEmptyString(e) == e.isStr /\ e.v # <<>>
IsNonBlankString(e) == e.isStr /\ \E i \in 1..Len(e.v) : e.v[i].ch # " " /\ e.v[i].n > 0
Values(a) == [i \in 1..Len(a) |-> a[i].v]
IsFallback == Len(facts) = 1 /\ IsFirstChars(facts[1], req.messages.v, 500)

\* C25 as stated: a JSON array yields exactly its non-empty string elements;
\* an object yields the string elements of its array-valued field only when
\* it has exactly one such field; every other parsed shape (an object with
\* no array-valued field or with several, a scalar, null) yields the single
\* fallback fact, the first 500 characters of the text.
C25_AsStated ==
  AddExtracted =>
    /\ gen.kind = "array" => facts = Values(SelectSeq(gen.arr, IsNonEmptyString))
    /\ (gen.kind = "object" /\ Cardinality(ArrayFields) = 1) =>
         \E i \in ArrayFields : facts = Values(SelectSeq(gen.fields[i].arr, IsString))
    /\ (gen.kind = "object" /\ Cardinality(ArrayFields) # 1) => IsFallback
    /\ gen.kind \in {"scalar", "null"} => IsFallback

\* C25: a JSON array yields exactly its string elements that are not blank
\* (empty after trimming); an object with at least one array-valued field
\* yields the string elements of the first such field, however many it has;
\* an object with no array-valued field, a scalar and null yield the single
\* fallback fact, the first 500 characters of the text.
C25_FirstArrayPolicy ==
  AddExtracted =>
    /\ gen.kind = "array" => facts = Values(SelectSeq(gen.arr, IsNonBlankString))
    /\ (gen.kind = "object" /\ ArrayFields # {}) =>
         \E i \in ArrayFields :
           /\ \A j \in ArrayFields : i <= j
           /\ facts = Values(SelectSeq(gen.fields[i].arr, IsString))
    /\ (gen.kind = "object" /\ ArrayFields = {}) => IsFallback
    /\ gen.kind \in {"scalar", "null"} => IsFallback

C25_Witness ==
  /\ AddExtracted /\ gen.kind = "object" /\ Cardinality(ArrayFields) = 2
  /\ gen.fields[1].arr = <<>> /\ gen.fields[2].arr # <<>>
  /\ facts = <<>> /\ resp.status = 200

NonEmptyString(x) == x # Absent /\ x # ""
FilterBuilt == scroll.pc # "idle" /\ scroll.caller = "client"

\* C26: the filter built for (userId, agentId, runId) always has the user_id
\* predicate first, then the agent_id predicate exactly when agentId is a
\* non-empty string, then the run_id predicate exactly when runId is a
\* non-empty string; an absent or empty dimension produces no predicate.
C26_FilterShape ==
  FilterBuilt =>
    LET must == scroll.must
        a == IF NonEmptyString(req.agent_id) THEN 1 ELSE 0
        r == IF NonEmptyString(req.run_id) THEN 1 ELSE 0
    IN /\ Len(must) = 1 + a + r
       /\ must[1] = [key |-> "user_id", value |-> req.user_id]
       /\ a = 1 => must[2] = [key |-> "agent_id", value |-> req.agent_id]
       /\ r = 1 => must[2 + a] = [key |-> "run_id", value |-> req.run_id]

C26_Witness ==
  /\ FilterBuilt /\ req.agent_id = "" /\ req.run_id = "r1"
  /\ scroll.must = <<[key |-> "user_id", value |-> req.user_id],
                     [key |-> "run_id", value |-> "r1"]>>

AddAnswered == resp.op = "add" /\ resp.status = 200 /\ calls.extractFacts = 1
OkFacts == {i \in 1..Len(facts) : outcomes[i] = "ok"}

\* C27: every {id, memory} of an add response is the id and text of a point
\* a successful upsert of this request stored: the point is in the store
\* with exactly that id, that text and the request's user; the ids of one
\* response are pairwise distinct; and a fact counted in failed has no id
\* reported: there are exactly as many results as facts whose upsert
\* succeeded, each the text of one of those facts.
C27_ResultsAreStoredPoints ==
  AddAnswered =>
    /\ \A i \in 1..Len(resp.results) :
         /\ \E p \in store : /\ p.id = resp.results[i].id
                             /\ p.memory = resp.results[i].memory
                             /\ p.user_id = req.user_id
         /\ \E j \in OkFacts : facts[j] = resp.results[i].memory
    /\ \A i, k \in 1..Len(resp.results) :
         i # k => resp.results[i].id # resp.results[k].id
    /\ Len(resp.results) = Cardinality(OkFacts)
    /\ Cardinality(OkFacts) + ReportedFailed = Len(facts)

C27_Witness ==
  /\ AddAnswered /\ Len(facts) = 2 /\ facts[1] # facts[2]
  /\ outcomes = <<"ok", "ok">> /\ Len(resp.results) = 2
  /\ \E p \in store : p.id = resp.results[2].id /\ p.memory = facts[2]

\* C30: no memory with empty text is ever stored: whatever the generation
\* backend answers to an accepted add request, every fact handed to embed
\* and upsert is a non-empty string, and so is the text of every stored point.
C30_NoEmptyMemory ==
  /\ (AddExtracted /\ calls.embed > 0) => \A i \in 1..Len(facts) : TextLen(facts[i]) > 0
  /\ \A p \in store : TextLen(p.memory) > 0

\* a request whose facts have all been dealt with and which has been answered
Answered(s) == adds[s].pc = "done" /\ adds[s].facts # <<>>
FailedOf(s) == IF adds[s].resp.hasFailed THEN adds[s].resp.failed ELSE 0

\* C24: within one add request every fact is processed on its own: embed is
\* attempted exactly once for each fact, upsert exactly once for a fact
\* whose embed succeeded and never for one whose embed failed, and a fact's
\* failure neither prevents the attempts for the other facts nor turns the
\* response into an error.
C24_FactsIndependent ==
  /\ \A s \in Slots : \A i \in 1..Len(adds[s].facts) :
       /\ adds[s].embeds[i] <= 1
       /\ adds[s].upserts[i] <= (IF adds[s].status[i] \in {"todo", "embedFail"} THEN 0 ELSE 1)
  /\ \A s \in Slots : Answered(s) =>
       /\ adds[s].resp.status = 200
       /\ \A i \in 1..Len(adds[s].facts) :
            /\ adds[s].embeds[i] = 1
            /\ adds[s].upserts[i] = (IF adds[s].status[i] = "embedFail" THEN 0 ELSE 1)

C24_Witness ==
  \E s \in Slots :
    /\ Answered(s) /\ Len(adds[s].facts) = 2
    /\ adds[s].status = <<"embedFail", "ok">>
    /\ adds[s].embeds = <<1, 1>> /\ adds[s].upserts = <<0, 1>>
    /\ adds[s].resp.status = 200 /\ Len(adds[s].resp.results) = 1

\* C28: when two add requests are handled together, whatever the
\* interleaving of their extract, embed and upsert steps, each response
\* reports its own request's facts only, its results and failed count adding
\* up to that request's number of facts, and every stored point carries the
\* user_id of the request that created it.
C28_RequestsIsolated ==
  /\ \A s \in Slots : Answered(s) =>
       /\ Len(adds[s].resp.results) + FailedOf(s) = Len(adds[s].facts)
       /\ \A k \in 1..Len(adds[s].resp.results) :
            \E i \in 1..Len(adds[s].facts) :
              /\ adds[s].resp.results[k].id = adds[s].ids[i]
              /\ adds[s].resp.results[k].memory = adds[s].facts[i]
              /\ adds[s].status[i] = "ok"
  /\ \A p \in store :
       \E s \in Slots : \E i \in 1..Len(adds[s].facts) :
         /\ adds[s].ids[i] = p.id
         /\ adds[s].status[i] = "ok"
         /\ p.user_id = adds[s].body.user_id
         /\ p.memory = adds[s].facts[i]
  /\ \A s, t \in Slots : \A i \in 1..Len(adds[s].facts) : \A j \in 1..Len(adds[t].facts) :
       (adds[s].ids[i] # 0 /\ adds[s].ids[i] = adds[t].ids[j]) => (s = t /\ i = j)

\* both requests were in flight together: the second drew an id between two
\* ids of the first, and both have been answered
C28_Witness ==
  /\ Answered(1) /\ Answered(2)
  /\ adds[1].body.user_id = "u1" /\ adds[2].body.user_id = "u2"
  /\ adds[1].ids = <<1, 3>> /\ adds[2].ids = <<2, 4>>
  /\ adds[1].status = <<"ok", "ok">> /\ adds[2].status = <<"ok", "upsertFail">>
  /\ Len(adds[2].resp.results) = 1 /\ FailedOf(2) = 1
  /\ \E p \in store : p.id = 2 /\ p.user_id = "u2"

OkIndexes(s) == {i \in 1..Len(adds[s].facts) : adds[s].status[i] = "ok"}

\* C29: the results of an add response list the stored facts in the order
\* extractFacts returned them: the k-th result is the k-th fact among those
\* stored, whatever the order in which the pipelines finished.
C29_ResultsInFactOrder ==
  \A s \in Slots : Answered(s) =>
    /\ Len(adds[s].resp.results) = Cardinality(OkIndexes(s))
    /\ \A k \in 1..Len(adds[s].resp.results) :
         \E i \in OkIndexes(s) :
           /\ Cardinality({j \in OkIndexes(s) : j <= i}) = k
           /\ adds[s].resp.results[k].memory = adds[s].facts[i]
           /\ adds[s].resp.results[k].id = adds[s].ids[i]

\* the second fact's pipeline finished first, and drew its id first
C29_Witness ==
  \E s \in Slots :
    /\ Answered(s) /\ adds[s].finished = <<2, 1>>
    /\ adds[s].status = <<"ok", "ok">>
    /\ adds[s].ids[2] < adds[s].ids[1]
    /\ adds[s].resp.results[1].memory = adds[s].facts[1]
    /\ adds[s].facts[1] # adds[s].facts[2]

====
